---- MODULE Spec2Model ----
(***************************************************************************)
(* battery_monitor.c: the poll loop of main(), the X11 sign functions      *)
(* called by main and by the detached temporary-sign threads, the sign     *)
(* control thread behind the command pipe, and the shutdown controller     *)
(* with its detached start/cancel threads.                                 *)
(*                                                                         *)
(* The flag x11_sign_active of main (reached through the bool pointer      *)
(* every sign function takes), the static cur_sign of x11_sign_display and *)
(* the command pipe are shared by main and the temporary-sign threads;     *)
(* none of them is protected by a lock.                                    *)
(*                                                                         *)
(* Spec runs each call of a sign function without interruption and lets    *)
(* the control thread and the shutdown threads finish their work before    *)
(* the caller goes on: main's locals (curstate, prevstate, warnnum,        *)
(* shutdown_launched) are read by no other thread, so what main decides    *)
(* in a cycle does not depend on the schedule.                             *)
(*                                                                         *)
(* SpecRace interleaves the threads at every access to the shared data     *)
(* and lets the control thread read the pipe at its own pace, for a        *)
(* battery that is never low.                                              *)
(***************************************************************************)
EXTENDS Integers, Sequences, FiniteSets, TLC

(* ---------------------------------------------------------------- bounds *)
MaxTemp == 1
MaxPipe == 2
MaxWarn == 7
MaxTasks == 1

(* ----------------------------------------------------- program constants *)
MSG_BATTERY_CHARGED == 0
MSG_LOW_BATTERY == 1
MSG_LOWCAP_WARNING == 2
MSG_REMCAP_WARNING == 3
MSG_NOTDET_WARNING == 4
MSG_CHST_READ_WARNING == 5
MSG_CHST_UNK_WARNING == 6
MSG_REMOVE_SIGN == 10
SAFETY_TIME == 60
CHECK_PERIOD_MIN == 1
CHECK_PERIOD_MAX == 24 * 3600
CHECK_PERIOD_DEFAULT == 20

charging_state ==
    {"CHST_INVALID", "CHST_CHARGING", "CHST_CHARGED", "CHST_DISCHARGING",
     "CHST_NO_BAT", "CHST_OTHER"}

alert_type == {"ALERT_LOWBAT", "ALERT_STARTSHUTDOWN", "ALERT_STOPSHUTDOWN"}

(* The periods parse_args accepts, as far as the model tries them.         *)
Periods == {10, CHECK_PERIOD_DEFAULT, SAFETY_TIME}

(* A field that get_string_field / get_integer_field could not read.       *)
Unreadable == "<unreadable>"

(* What the "present:" and "charging state:" lines may hold at a poll.     *)
PresentFields == {Unreadable, "yes", "no"}
StateFields == {Unreadable, "charging", "charged", "discharging", "critical"}

(* "design capacity low" and "remaining capacity": -1 is the read failure. *)
LowLimits == {-1, 1}
RemCaps == {-1, 0, 1}

MAIN == 0
TempIds == 1..MaxTemp
Threads == {MAIN} \cup TempIds

(* The signs x11_sign_display is called with.                              *)
Signs ==
    {MSG_BATTERY_CHARGED, MSG_LOW_BATTERY, MSG_LOWCAP_WARNING, MSG_REMCAP_WARNING,
     MSG_NOTDET_WARNING, MSG_CHST_READ_WARNING, MSG_CHST_UNK_WARNING}

VARIABLES
    arg_check_period,   \* seconds between polls, set by parse_args
    curstate,           \* main: current charging state
    prevstate,          \* main: previous charging state
    warnnum,            \* main: number of warnings so far
    shutdown_launched,  \* main: shutdown process running?
    x11_sign_active,    \* main: X11 sign active?  (shared with temp threads)
    cur_sign,           \* static of x11_sign_display (shared)
    x11_pipe,           \* commands written and not yet read by the control thread
    x11_dd,             \* the window: mapped?, cur_msg
    frame,              \* per thread: pc, sign argument, return point, nesting
    fields,             \* the two fields get_charging_state has just read
    tasks,              \* detached shutdown threads that have not yet run system()
    sys_last,           \* the last external command that system() ran
    last_inv,           \* history: the last external command main spawned
    owner,              \* history: who wrote the last command on the pipe
    lowrun,             \* history: length of the current low-battery run
    cyc                 \* history: what main has done in the current cycle

vars ==
    <<arg_check_period, curstate, prevstate, warnnum, shutdown_launched,
      x11_sign_active, cur_sign, x11_pipe, x11_dd, frame, fields,
      tasks, sys_last, last_inv, owner, lowrun, cyc>>

(* ------------------------------------------------------ the state reader *)

\* get_string_field: -1 when the file or the line is missing or unparseable.
get_string_field(field) == IF field = Unreadable THEN -1 ELSE 0

\* get_integer_field: the value, -1 in case of problems.
get_integer_field(field) == field

get_present(present) ==
    IF -1 = get_string_field(present) THEN FALSE
    ELSE IF present = "yes" THEN TRUE
    ELSE FALSE

\* The resolver with the presence check forgotten.
GetChargingStateIgnoresPresence(present, state) ==
    IF -1 = get_string_field(state) THEN "CHST_INVALID"
    ELSE IF state = "charging" THEN "CHST_CHARGING"
    ELSE IF state = "charged" THEN "CHST_CHARGED"
    ELSE IF state = "discharging" THEN "CHST_DISCHARGING"
    ELSE "CHST_OTHER"

get_charging_state(present, state) ==
    IF ~get_present(present) THEN "CHST_NO_BAT"
    ELSE IF -1 = get_string_field(state) THEN "CHST_INVALID"
    ELSE IF state = "charging" THEN "CHST_CHARGING"
    ELSE IF state = "charged" THEN "CHST_CHARGED"
    ELSE IF state = "discharging" THEN "CHST_DISCHARGING"
    ELSE "CHST_OTHER"

(* ------------------------------------------------- the shutdown controller *)

\* start_shutdown with line 801 (*already_active = true) forgotten.
StartShutdownForgetsFlag(already_active) ==
    IF already_active
    THEN [active |-> already_active, spawn |-> FALSE, alerts |-> <<>>]
    ELSE [active |-> already_active, spawn |-> TRUE, alerts |-> <<"ALERT_STARTSHUTDOWN">>]

\* start_shutdown(&flag), lines 795-803: the new flag, whether a start thread
\* was created, and the alerts emitted.
start_shutdown(already_active) ==
    IF already_active
    THEN [active |-> already_active, spawn |-> FALSE, alerts |-> <<>>]
    ELSE [active |-> TRUE, spawn |-> TRUE, alerts |-> <<"ALERT_STARTSHUTDOWN">>]

\* stop_shutdown with the test of line 829 forgotten.
StopShutdownUnguarded(still_active) ==
    [active |-> FALSE, spawn |-> TRUE, alerts |-> <<"ALERT_STOPSHUTDOWN">>]

\* stop_shutdown with line 832 (*still_active = false) forgotten.
StopShutdownKeepsFlag(still_active) ==
    IF ~still_active
    THEN [active |-> still_active, spawn |-> FALSE, alerts |-> <<>>]
    ELSE [active |-> still_active, spawn |-> TRUE, alerts |-> <<"ALERT_STOPSHUTDOWN">>]

\* stop_shutdown(&flag), lines 826-834: likewise for the cancel thread.
stop_shutdown(still_active) ==
    IF ~still_active
    THEN [active |-> still_active, spawn |-> FALSE, alerts |-> <<>>]
    ELSE [active |-> FALSE, spawn |-> TRUE, alerts |-> <<"ALERT_STOPSHUTDOWN">>]

\* pthread_create_dt of a shutdown thread: it runs system() at some later time.
pthread_create_dt(pending, kind, spawn) ==
    IF spawn THEN [pending EXCEPT ![kind] = @ + 1] ELSE pending

\* The decision with > for >=.
ShutdownDueStrict(w, period, launched) == w * period > SAFETY_TIME /\ ~launched

\* The decision by a fixed number of warnings (right for the default period only).
ShutdownDueFixedCount(w, period, launched) == w >= 3 /\ ~launched

\* main, line 188: the low-battery decision: start the shutdown, or warn once more.
ShutdownDue(w, period, launched) == w * period >= SAFETY_TIME /\ ~launched

(* ------------------------------------------------------------ call frames *)

NoSign == 0 - 1
NotRead == 0 - 2

SignPcs == {"d_up", "d_cur", "d_if", "u_if", "u_send", "u_clr", "d_send", "d_set", "d_curw"}

\* A thread outside the sign functions, at label.
IdleFrame(label) == [pc |-> label, sign |-> NoSign, ret |-> label, nested |-> FALSE]

\* Entering x11_sign_display past the test of line 607 (same sign already up).
CallDisplayNoSameTest(sign, ret) == [pc |-> "d_if", sign |-> sign, ret |-> ret, nested |-> FALSE]

\* Entering x11_sign_display(sign, &x11_sign_active), to return to label ret.
CallDisplay(sign, ret) == [pc |-> "d_up", sign |-> sign, ret |-> ret, nested |-> FALSE]

\* Entering x11_sign_undisplay(&x11_sign_active), to return to label ret.
CallUndisplay(sign, ret) == [pc |-> "u_if", sign |-> sign, ret |-> ret, nested |-> FALSE]

\* Return from x11_sign_undisplay: into x11_sign_display when it made the call.
ReturnUndisplay(f) ==
    IF f.nested THEN [f EXCEPT !.pc = "d_send", !.nested = FALSE]
    ELSE [f EXCEPT !.pc = "ret"]

(* -------------------------------------------------------- the sign functions *)
(* x11_sign_display and x11_sign_undisplay as run by one thread with frame f  *)
(* on the shared data s = [active, cur, pipe, owner, sent]: active is the     *)
(* flag behind the bool pointer, cur the static cur_sign, pipe the command    *)
(* pipe; owner and sent are histories (who wrote the last command on the      *)
(* pipe, what this thread wrote).  One step per access to shared data.        *)

\* x11_send_command, lines 398-410.
x11_send_command(s, command, who) ==
    [s EXCEPT !.pipe = Append(@, command), !.owner = who, !.sent = Append(@, command)]

SignStep(s, f, who) ==
    CASE f.pc = "d_up" ->    \* line 607: if (*sign_up ...
            [s |-> s, f |-> [f EXCEPT !.pc = IF s.active THEN "d_cur" ELSE "d_if"]]
      [] f.pc = "d_cur" ->   \* line 607: ... && sign == cur_sign) return;
            [s |-> s, f |-> [f EXCEPT !.pc = IF f.sign = s.cur THEN "ret" ELSE "d_if"]]
      [] f.pc = "d_if" ->    \* lines 610-611: if (*sign_up) x11_sign_undisplay(sign_up);
            [s |-> s,
             f |-> IF s.active THEN [f EXCEPT !.pc = "u_if", !.nested = TRUE]
                   ELSE [f EXCEPT !.pc = "d_send"]]
      [] f.pc = "u_if" ->    \* line 660: if (*sign_up)
            [s |-> s,
             f |-> IF s.active THEN [f EXCEPT !.pc = "u_send"] ELSE ReturnUndisplay(f)]
      [] f.pc = "u_send" ->  \* line 661: x11_send_command(MSG_REMOVE_SIGN);
            [s |-> x11_send_command(s, MSG_REMOVE_SIGN, "none"),
             f |-> [f EXCEPT !.pc = "u_clr"]]
      [] f.pc = "u_clr" ->   \* line 662: *sign_up = false;
            [s |-> [s EXCEPT !.active = FALSE], f |-> ReturnUndisplay(f)]
      [] f.pc = "d_send" ->  \* line 613: x11_send_command(sign);
            [s |-> x11_send_command(s, f.sign, who), f |-> [f EXCEPT !.pc = "d_set"]]
      [] f.pc = "d_set" ->   \* line 614: *sign_up = true;
            [s |-> [s EXCEPT !.active = TRUE], f |-> [f EXCEPT !.pc = "d_curw"]]
      [] f.pc = "d_curw" ->  \* line 615: cur_sign = sign;
            [s |-> [s EXCEPT !.cur = f.sign], f |-> [f EXCEPT !.pc = "ret"]]

\* A whole call, run without interruption.
RECURSIVE RunCall(_, _, _)
RunCall(s, f, who) ==
    IF f.pc = "ret" THEN s
    ELSE LET r == SignStep(s, f, who) IN RunCall(r.s, r.f, who)

\* x11_sign_display(sign, sign_up), lines 603-616, uninterrupted.
x11_sign_display(s, sign, who) == RunCall(s, CallDisplay(sign, "ret"), who)

\* x11_sign_undisplay(sign_up), lines 658-664, uninterrupted.
x11_sign_undisplay(s, who) == RunCall(s, CallUndisplay(NoSign, "ret"), who)

\* x11_sign_control_routine, lines 458-476: the window after one command;
\* x11_prepare_sign (lines 413-428) sets cur_msg and maps the window.
ControlStep(dd, command) ==
    IF command = MSG_REMOVE_SIGN
    THEN [dd EXCEPT !.mapped = FALSE]
    ELSE [mapped |-> TRUE, cur_msg |-> command]

\* The window once the control thread has read every command of pipe.
RECURSIVE Drain(_, _)
Drain(dd, pipe) ==
    IF pipe = <<>> THEN dd ELSE Drain(ControlStep(dd, Head(pipe)), Tail(pipe))

Shared ==
    [active |-> x11_sign_active, cur |-> cur_sign, pipe |-> x11_pipe,
     owner |-> owner, sent |-> <<>>]

\* The shared data become s.  With prompt, the control thread reads the pipe
\* empty before any other thread runs; without, the commands wait in the pipe,
\* and a write on a full pipe blocks.
Store(s, prompt) ==
    /\ x11_sign_active' = s.active
    /\ cur_sign' = s.cur
    /\ owner' = s.owner
    /\ IF prompt
       THEN x11_pipe' = <<>> /\ x11_dd' = Drain(x11_dd, s.pipe)
       ELSE Len(s.pipe) <= MaxPipe /\ x11_pipe' = s.pipe /\ UNCHANGED x11_dd

OwnerOf(t) == IF t = MAIN THEN "main" ELSE "temp"

\* x11_sign_display_temp, lines 643-656: a detached thread that starts in
\* x11_temp_sign_control, whose first access to shared data is the flag read of
\* x11_sign_display; after that call it sleeps TEMP_SIGN_TIME.
x11_sign_display_temp(fr, slot, sign) ==
    [fr EXCEPT ![slot] = CallDisplay(sign, "sleep")]

(* -------------------------------------------------------------- histories *)

NewCycle ==
    [warn0 |-> warnnum, sd0 |-> shutdown_launched, branch |-> "none",
     lowlimit |-> NotRead, remcap |-> NotRead,
     clears |-> 0, shows |-> <<>>, cmds |-> <<>>, starts |-> 0, cancels |-> 0,
     sounds |-> <<>>, temps |-> <<>>]

NoCycle ==
    [warn0 |-> 0, sd0 |-> FALSE, branch |-> "none",
     lowlimit |-> NotRead, remcap |-> NotRead,
     clears |-> 0, shows |-> <<>>, cmds |-> <<>>, starts |-> 0, cancels |-> 0,
     sounds |-> <<>>, temps |-> <<>>]

(* ------------------------------------------------------------------- Init *)

Init ==
    /\ arg_check_period \in Periods
    /\ curstate = "CHST_INVALID"
    /\ prevstate = "CHST_INVALID"
    /\ warnnum = 0
    /\ shutdown_launched = FALSE
    /\ x11_sign_active = FALSE
    /\ cur_sign = 0
    /\ x11_pipe = <<>>
    /\ x11_dd = [mapped |-> FALSE, cur_msg |-> NoSign]
    /\ frame = [t \in Threads |-> IF t = MAIN THEN IdleFrame("poll") ELSE IdleFrame("free")]
    /\ fields = [present |-> "-", state |-> "-"]
    /\ tasks = [k \in {"start", "cancel"} |-> 0]
    /\ sys_last = "none"
    /\ last_inv = "none"
    /\ owner = "none"
    /\ lowrun = 0
    /\ cyc = NoCycle

(* --------------------------------------------------- the sign control thread *)

\* x11_sign_control_routine, lines 455-477: read one command and obey it.
x11_sign_control_routine ==
    /\ x11_pipe # <<>>
    /\ x11_pipe' = Tail(x11_pipe)
    /\ x11_dd' = ControlStep(x11_dd, Head(x11_pipe))
    /\ UNCHANGED <<arg_check_period, curstate, prevstate, warnnum, shutdown_launched,
                   x11_sign_active, cur_sign, frame, fields, tasks,
                   sys_last, last_inv, owner, lowrun, cyc>>

(* ------------------------------------------------------ the shutdown threads *)

\* start_shutdown_routine, lines 774-793: system(shutdown -h +2).
start_shutdown_routine ==
    /\ tasks["start"] > 0
    /\ tasks' = [tasks EXCEPT !["start"] = @ - 1]
    /\ sys_last' = "start"
    /\ UNCHANGED <<arg_check_period, curstate, prevstate, warnnum, shutdown_launched,
                   x11_sign_active, cur_sign, x11_pipe, x11_dd, frame, fields,
                   last_inv, owner, lowrun, cyc>>

\* stop_shutdown_routine, lines 806-824: system(shutdown -c).
stop_shutdown_routine ==
    /\ tasks["cancel"] > 0
    /\ tasks' = [tasks EXCEPT !["cancel"] = @ - 1]
    /\ sys_last' = "cancel"
    /\ UNCHANGED <<arg_check_period, curstate, prevstate, warnnum, shutdown_launched,
                   x11_sign_active, cur_sign, x11_pipe, x11_dd, frame, fields,
                   last_inv, owner, lowrun, cyc>>

(* ------------------------------------------------------------ the poll loop *)
(* The part of the state main works on, as one record m: fr the frames, s the *)
(* shared sign data, main's locals, the shutdown threads and the histories;   *)
(* ok is false when the step has to wait for a bound of the model.            *)

MainState ==
    [fr |-> frame, s |-> Shared, warnnum |-> warnnum, sd |-> shutdown_launched,
     tasks |-> tasks, last_inv |-> last_inv, lowrun |-> lowrun, cyc |-> cyc,
     ok |-> TRUE]

\* The big switch with the test of line 166 forgotten.
FirstActionAlwaysClears(cur, prev) ==
    CASE cur = "CHST_DISCHARGING" ->
            [op |-> "undisplay", sign |-> NoSign, next |-> "dis_check"]
      [] cur = "CHST_CHARGED" ->
            [op |-> "display", sign |-> MSG_BATTERY_CHARGED, next |-> "reset"]
      [] cur \in {"CHST_CHARGING", "CHST_NO_BAT", "CHST_INVALID"} ->
            [op |-> "undisplay", sign |-> NoSign, next |-> "reset"]
      [] cur = "CHST_OTHER" ->
            [op |-> "temp", sign |-> MSG_CHST_UNK_WARNING, next |-> "finish"]

\* The big switch with CHST_OTHER handled like the states that reset.
FirstActionOtherResets(cur, prev) ==
    CASE cur = "CHST_DISCHARGING" ->
            IF "CHST_DISCHARGING" # prev
            THEN [op |-> "undisplay", sign |-> NoSign, next |-> "dis_check"]
            ELSE [op |-> "none", sign |-> NoSign, next |-> "dis_check"]
      [] cur = "CHST_CHARGED" ->
            [op |-> "display", sign |-> MSG_BATTERY_CHARGED, next |-> "reset"]
      [] cur \in {"CHST_CHARGING", "CHST_NO_BAT", "CHST_INVALID", "CHST_OTHER"} ->
            [op |-> "undisplay", sign |-> NoSign, next |-> "reset"]

\* main, lines 162-237: the first sign call of each case of the big switch.
FirstAction(cur, prev) ==
    CASE cur = "CHST_DISCHARGING" ->
            IF "CHST_DISCHARGING" # prev
            THEN [op |-> "undisplay", sign |-> NoSign, next |-> "dis_check"]
            ELSE [op |-> "none", sign |-> NoSign, next |-> "dis_check"]
      [] cur = "CHST_CHARGED" ->
            [op |-> "display", sign |-> MSG_BATTERY_CHARGED, next |-> "reset"]
      [] cur \in {"CHST_CHARGING", "CHST_NO_BAT", "CHST_INVALID"} ->
            [op |-> "undisplay", sign |-> NoSign, next |-> "reset"]
      [] cur = "CHST_OTHER" ->
            [op |-> "temp", sign |-> MSG_CHST_UNK_WARNING, next |-> "finish"]

\* The checks with the test of line 178 (-1 == remcap) forgotten.
DischargingChecksTrustRemcap(lowlimit, remcap) ==
    IF -1 = lowlimit
    THEN [branch |-> "lowcap", op |-> "temp", sign |-> MSG_LOWCAP_WARNING, next |-> "finish"]
    ELSE IF remcap < lowlimit
    THEN [branch |-> "low", op |-> "display", sign |-> MSG_LOW_BATTERY, next |-> "dis_low"]
    ELSE [branch |-> "ok", op |-> "none", sign |-> NoSign, next |-> "finish"]

\* The checks with <= for < in line 186.
DischargingChecksLowAtLimit(lowlimit, remcap) ==
    IF -1 = lowlimit
    THEN [branch |-> "lowcap", op |-> "temp", sign |-> MSG_LOWCAP_WARNING, next |-> "finish"]
    ELSE IF -1 = remcap
    THEN [branch |-> "remcap", op |-> "temp", sign |-> MSG_REMCAP_WARNING, next |-> "finish"]
    ELSE IF remcap <= lowlimit
    THEN [branch |-> "low", op |-> "display", sign |-> MSG_LOW_BATTERY, next |-> "dis_low"]
    ELSE [branch |-> "ok", op |-> "none", sign |-> NoSign, next |-> "finish"]

\* main, lines 169-194: the checks of the discharging case.
DischargingChecks(lowlimit, remcap) ==
    IF -1 = lowlimit
    THEN [branch |-> "lowcap", op |-> "temp", sign |-> MSG_LOWCAP_WARNING, next |-> "finish"]
    ELSE IF -1 = remcap
    THEN [branch |-> "remcap", op |-> "temp", sign |-> MSG_REMCAP_WARNING, next |-> "finish"]
    ELSE IF remcap < lowlimit
    THEN [branch |-> "low", op |-> "display", sign |-> MSG_LOW_BATTERY, next |-> "dis_low"]
    ELSE [branch |-> "ok", op |-> "none", sign |-> NoSign, next |-> "finish"]

\* The low-battery case with the count reset instead of raised while the
\* shutdown is running.
LowBatteryResetsWhenActive(w, period, launched) ==
    IF ShutdownDue(w, period, launched)
    THEN [warnnum |-> w, sd |-> start_shutdown(launched), alerts |-> <<>>]
    ELSE [warnnum |-> IF launched THEN w - w ELSE w + 1,
          sd |-> [active |-> launched, spawn |-> FALSE, alerts |-> <<>>],
          alerts |-> <<"ALERT_LOWBAT">>]

\* The low-battery case counting a warning in the cycle that starts the shutdown too.
LowBatteryCountsOnStart(w, period, launched) ==
    IF ShutdownDue(w, period, launched)
    THEN [warnnum |-> w + 1, sd |-> start_shutdown(launched), alerts |-> <<>>]
    ELSE [warnnum |-> w + 1,
          sd |-> [active |-> launched, spawn |-> FALSE, alerts |-> <<>>],
          alerts |-> <<"ALERT_LOWBAT">>]

\* main, lines 188-193: what the low-battery case does to warnnum and the shutdown.
LowBattery(w, period, launched) ==
    IF ShutdownDue(w, period, launched)
    THEN [warnnum |-> w, sd |-> start_shutdown(launched), alerts |-> <<>>]
    ELSE [warnnum |-> w + 1,
          sd |-> [active |-> launched, spawn |-> FALSE, alerts |-> <<>>],
          alerts |-> <<"ALERT_LOWBAT">>]

\* Reset and cancel with warnnum = 0 forgotten.
ResetAndCancelKeepsCount(w, launched) ==
    [warnnum |-> w, sd |-> stop_shutdown(launched)]

\* Reset and cancel with the call of stop_shutdown forgotten.
ResetWithoutCancel(w, launched) ==
    [warnnum |-> w - w, sd |-> [active |-> launched, spawn |-> FALSE, alerts |-> <<>>]]

\* main, lines 205-206 (212-213, 219-220, 227-228): reset and cancel.
ResetAndCancel(w, launched) ==
    [warnnum |-> w - w, sd |-> stop_shutdown(launched)]

\* main, line 230: only the invalid state shows a temporary sign after the reset.
ResetSign(cur) ==
    IF cur = "CHST_INVALID"
    THEN [op |-> "temp", sign |-> MSG_CHST_READ_WARNING, next |-> "finish"]
    ELSE [op |-> "none", sign |-> NoSign, next |-> "finish"]

\* What the cycle's history records of sign operation act.
Logged(c, act) ==
    CASE act.op = "undisplay" -> [c EXCEPT !.clears = @ + 1]
      [] act.op = "display" -> [c EXCEPT !.shows = Append(@, act.sign)]
      [] act.op = "temp" -> [c EXCEPT !.temps = Append(@, act.sign)]
      [] OTHER -> c

\* main performs sign operation act and goes on to act.next: the call runs
\* without interruption when atomic, and otherwise main enters it.
Perform(m, act, atomic) ==
    LET free == {t \in TempIds : m.fr[t].pc = "free"}
        slot == CHOOSE t \in free : \A u \in free : t <= u
        n == [m EXCEPT !.cyc = Logged(@, act)]
    IN  CASE act.op = "display" ->
                IF atomic
                THEN [n EXCEPT !.s = x11_sign_display(@, act.sign, "main"),
                               !.fr[MAIN] = IdleFrame(act.next)]
                ELSE [n EXCEPT !.fr[MAIN] = CallDisplay(act.sign, act.next)]
          [] act.op = "undisplay" ->
                IF atomic
                THEN [n EXCEPT !.s = x11_sign_undisplay(@, "main"),
                               !.fr[MAIN] = IdleFrame(act.next)]
                ELSE [n EXCEPT !.fr[MAIN] = CallUndisplay(act.sign, act.next)]
          [] act.op = "temp" ->
                IF free = {} THEN [n EXCEPT !.ok = FALSE]
                ELSE [n EXCEPT !.fr = x11_sign_display_temp(
                                          [@ EXCEPT ![MAIN] = IdleFrame(act.next)],
                                          slot, act.sign)]
          [] act.op = "none" ->
                [n EXCEPT !.fr[MAIN] = IdleFrame(act.next)]

\* Launched with a main that waits for the shutdown threads created before.
LaunchedAfterJoin(m, kind, r) ==
    [m EXCEPT !.sd = r.active,
              !.tasks = pthread_create_dt(@, kind, r.spawn),
              !.last_inv = IF r.spawn THEN kind ELSE @,
              !.cyc.starts = IF r.spawn /\ kind = "start" THEN @ + 1 ELSE @,
              !.cyc.cancels = IF r.spawn /\ kind = "cancel" THEN @ + 1 ELSE @,
              !.cyc.sounds = @ \o r.alerts,
              !.ok = m.ok /\ (r.spawn => \A k \in DOMAIN m.tasks : m.tasks[k] = 0)]

\* The shutdown threads and the histories after main's call of start_shutdown
\* or stop_shutdown returned r.
Launched(m, kind, r) ==
    [m EXCEPT !.sd = r.active,
              !.tasks = pthread_create_dt(@, kind, r.spawn),
              !.last_inv = IF r.spawn THEN kind ELSE @,
              !.cyc.starts = IF r.spawn /\ kind = "start" THEN @ + 1 ELSE @,
              !.cyc.cancels = IF r.spawn /\ kind = "cancel" THEN @ + 1 ELSE @,
              !.cyc.sounds = @ \o r.alerts,
              !.ok = m.ok /\ (r.spawn => m.tasks[kind] < MaxTasks)]

\* The length of the run of low-battery cycles that began with warnnum = 0 and
\* no shutdown running, once this cycle joins it.
NextLowRun(run, c) ==
    IF run > 0 THEN run + 1
    ELSE IF c.warn0 = 0 /\ ~c.sd0 THEN 1
    ELSE 0

\* One step of main's loop body, from label m.fr[MAIN].pc to the next label.
MainStep(m, lowlimit, remcap, atomic) ==
    CASE m.fr[MAIN].pc = "switch" ->      \* line 162
            Perform([m EXCEPT !.lowrun = IF curstate = "CHST_DISCHARGING" THEN @ ELSE 0],
                    FirstAction(curstate, prevstate), atomic)
      [] m.fr[MAIN].pc = "dis_check" ->   \* lines 169-187
            LET act == DischargingChecks(lowlimit, remcap) IN
            Perform([m EXCEPT !.cyc.branch = act.branch,
                              !.cyc.lowlimit = lowlimit,
                              !.cyc.remcap = IF -1 = lowlimit THEN NotRead ELSE remcap,
                              !.lowrun = IF act.branch = "low" THEN @ ELSE 0],
                    act, atomic)
      [] m.fr[MAIN].pc = "dis_low" ->     \* lines 188-193
            LET r == LowBattery(m.warnnum, arg_check_period, m.sd)
                n == Launched(m, "start", r.sd)
            IN  [n EXCEPT !.warnnum = r.warnnum,
                          !.cyc.sounds = @ \o r.alerts,
                          !.lowrun = NextLowRun(@, m.cyc),
                          !.fr[MAIN] = IdleFrame("finish"),
                          !.ok = n.ok /\ r.warnnum <= MaxWarn]
      [] m.fr[MAIN].pc = "reset" ->       \* lines 205-207, 212-214, 219-222, 227-231
            LET r == ResetAndCancel(m.warnnum, m.sd)
                n == Launched(m, "cancel", r.sd)
            IN  Perform([n EXCEPT !.warnnum = r.warnnum], ResetSign(curstate), atomic)

\* The loop body from line 162 to line 244, every sign call uninterrupted.
RECURSIVE RunBody(_, _, _)
RunBody(m, lowlimit, remcap) ==
    IF m.fr[MAIN].pc = "finish" \/ ~m.ok THEN m
    ELSE RunBody(MainStep(m, lowlimit, remcap, TRUE), lowlimit, remcap)

\* The last external command once the shutdown thread of pending, if any, has
\* run system(): a cycle creates at most one.
RunTasks(pending, last) ==
    IF pending["cancel"] > 0 THEN "cancel"
    ELSE IF pending["start"] > 0 THEN "start"
    ELSE last

\* The state becomes m.  With prompt, the threads main created (the control
\* thread aside, the shutdown threads) run before any other thread does.
Commit(m, prompt) ==
    /\ m.ok
    /\ Store(m.s, prompt)
    /\ frame' = m.fr
    /\ warnnum' = m.warnnum
    /\ shutdown_launched' = m.sd
    /\ IF prompt
       THEN tasks' = tasks /\ sys_last' = RunTasks(m.tasks, sys_last)
       ELSE tasks' = m.tasks /\ UNCHANGED sys_last
    /\ last_inv' = m.last_inv
    /\ lowrun' = m.lowrun
    /\ cyc' = [m.cyc EXCEPT !.cmds = @ \o m.s.sent]

MainAt(label) == frame[MAIN].pc = label

\* main, line 159: curstate = get_charging_state();
Poll ==
    /\ MainAt("poll")
    /\ \E present \in PresentFields, state \in StateFields :
          /\ fields' = [present |-> present, state |-> state]
          /\ curstate' = get_charging_state(present, state)
    /\ cyc' = NewCycle
    /\ frame' = [frame EXCEPT ![MAIN] = IdleFrame("switch")]
    /\ UNCHANGED <<arg_check_period, prevstate, warnnum, shutdown_launched,
                   x11_sign_active, cur_sign, x11_pipe, x11_dd, tasks,
                   sys_last, last_inv, owner, lowrun>>

\* main, lines 162-244: the big switch, its sign calls uninterrupted.
Cycle ==
    /\ MainAt("switch")
    /\ \E lowlimit \in LowLimits, remcap \in RemCaps :
          Commit(RunBody(MainState, get_integer_field(lowlimit), get_integer_field(remcap)),
                 TRUE)
    /\ fields' = [present |-> "-", state |-> "-"]
    /\ UNCHANGED <<arg_check_period, curstate, prevstate>>

\* main, lines 246-247: prevstate = curstate; safe_sleep(arg_check_period);
Sleep ==
    /\ MainAt("finish")
    /\ prevstate' = curstate
    /\ cyc' = NoCycle
    /\ frame' = [frame EXCEPT ![MAIN] = IdleFrame("poll")]
    /\ UNCHANGED <<arg_check_period, curstate, warnnum, shutdown_launched,
                   x11_sign_active, cur_sign, x11_pipe, x11_dd, fields, tasks,
                   sys_last, last_inv, owner, lowrun>>

(* ------------------------------------------------- the temporary-sign threads *)

\* x11_temp_sign_control, line 637: x11_sign_display(args.sign, args.sign_active).
TempShow(t) ==
    /\ frame[t].pc = "d_up"
    /\ Store(x11_sign_display(Shared, frame[t].sign, "temp"), TRUE)
    /\ frame' = [frame EXCEPT ![t].pc = "sleep"]
    /\ UNCHANGED <<arg_check_period, curstate, prevstate, warnnum, shutdown_launched,
                   fields, tasks, sys_last, last_inv, lowrun, cyc>>

\* x11_temp_sign_control, lines 638-640: the dwell ends; x11_sign_undisplay; return.
TempClear(t) ==
    /\ frame[t].pc = "sleep"
    /\ Store(x11_sign_undisplay(Shared, "temp"), TRUE)
    /\ frame' = [frame EXCEPT ![t] = IdleFrame("free")]
    /\ UNCHANGED <<arg_check_period, curstate, prevstate, warnnum, shutdown_launched,
                   fields, tasks, sys_last, last_inv, lowrun, cyc>>

(* ------------------------------------------------ every access interleaved *)

\* One step of main's loop body; a sign call is entered, not run.
MainStepR(lowlimits, remcaps) ==
    /\ frame[MAIN].pc \in {"switch", "dis_check", "dis_low", "reset"}
    /\ \E lowlimit \in lowlimits, remcap \in remcaps :
          Commit(MainStep(MainState, get_integer_field(lowlimit),
                          get_integer_field(remcap), FALSE), FALSE)
    /\ fields' = [present |-> "-", state |-> "-"]
    /\ UNCHANGED <<arg_check_period, curstate, prevstate>>

\* Where thread t goes when its sign call returns.
Return(t, f) ==
    IF t = MAIN THEN IdleFrame(f.ret)
    ELSE IF f.ret = "sleep" THEN [f EXCEPT !.pc = "sleep"]
    ELSE IdleFrame("free")

\* Thread t, inside x11_sign_display or x11_sign_undisplay, makes its next
\* access to the shared data.
SignAccess(t) ==
    /\ frame[t].pc \in SignPcs
    /\ LET r == SignStep(Shared, frame[t], OwnerOf(t)) IN
          /\ Store(r.s, FALSE)
          /\ frame' = [frame EXCEPT ![t] = IF r.f.pc = "ret" THEN Return(t, r.f) ELSE r.f]
          /\ cyc' = IF t = MAIN THEN [cyc EXCEPT !.cmds = @ \o r.s.sent] ELSE cyc
    /\ UNCHANGED <<arg_check_period, curstate, prevstate, warnnum, shutdown_launched,
                   fields, tasks, sys_last, last_inv, lowrun>>

\* x11_temp_sign_control, lines 638-639: the dwell ends, x11_sign_undisplay begins.
TempWake(t) ==
    /\ frame[t].pc = "sleep"
    /\ frame' = [frame EXCEPT ![t] = CallUndisplay(frame[t].sign, "exit")]
    /\ UNCHANGED <<arg_check_period, curstate, prevstate, warnnum, shutdown_launched,
                   x11_sign_active, cur_sign, x11_pipe, x11_dd, fields, tasks,
                   sys_last, last_inv, owner, lowrun, cyc>>

(* ---------------------------------------------------------- specification *)

\* One poll cycle at a time, every sign call uninterrupted.
Next ==
    \/ Poll
    \/ Cycle
    \/ Sleep
    \/ \E t \in TempIds : TempShow(t)
    \/ \E t \in TempIds : TempClear(t)

Spec == Init /\ [][Next]_vars

(* ------------------------------------------------- detached shutdown threads *)

\* The state becomes m: the control thread reads the pipe empty at once, the
\* shutdown threads main created wait for their turn.
CommitDetached(m) ==
    /\ m.ok
    /\ Store(m.s, TRUE)
    /\ frame' = m.fr
    /\ warnnum' = m.warnnum
    /\ shutdown_launched' = m.sd
    /\ tasks' = m.tasks
    /\ UNCHANGED sys_last
    /\ last_inv' = m.last_inv
    /\ lowrun' = m.lowrun
    /\ cyc' = [m.cyc EXCEPT !.cmds = @ \o m.s.sent]

\* main, lines 162-244: the big switch; the threads it creates run later.
CycleDetached ==
    /\ MainAt("switch")
    /\ \E lowlimit \in LowLimits, remcap \in RemCaps :
          CommitDetached(RunBody(MainState, get_integer_field(lowlimit),
                                 get_integer_field(remcap)))
    /\ fields' = [present |-> "-", state |-> "-"]
    /\ UNCHANGED <<arg_check_period, curstate, prevstate>>

\* The control thread always keeps up; every detached thread runs when it likes.
NextDetached ==
    \/ Poll
    \/ CycleDetached
    \/ Sleep
    \/ \E t \in TempIds : TempShow(t)
    \/ \E t \in TempIds : TempClear(t)
    \/ start_shutdown_routine
    \/ stop_shutdown_routine

InitDetached == Init /\ arg_check_period = SAFETY_TIME

SpecDetached == InitDetached /\ [][NextDetached]_vars

(* ------------------------------------------------------- the range of periods *)

\* Periods parse_args accepts (lines 893-898), the two ends of the range among
\* them, and one that does not divide SAFETY_TIME.
PeriodsWide == {CHECK_PERIOD_MIN, 9, CHECK_PERIOD_DEFAULT, SAFETY_TIME, CHECK_PERIOD_MAX}

InitPeriods ==
    /\ arg_check_period \in PeriodsWide
    /\ curstate = "CHST_INVALID"
    /\ prevstate = "CHST_INVALID"
    /\ warnnum = 0
    /\ shutdown_launched = FALSE
    /\ x11_sign_active = FALSE
    /\ cur_sign = 0
    /\ x11_pipe = <<>>
    /\ x11_dd = [mapped |-> FALSE, cur_msg |-> NoSign]
    /\ frame = [t \in Threads |-> IF t = MAIN THEN IdleFrame("poll") ELSE IdleFrame("free")]
    /\ fields = [present |-> "-", state |-> "-"]
    /\ tasks = [k \in {"start", "cancel"} |-> 0]
    /\ sys_last = "none"
    /\ last_inv = "none"
    /\ owner = "none"
    /\ lowrun = 0
    /\ cyc = NoCycle

SpecPeriods == InitPeriods /\ [][Next]_vars

(* ------------------------------------------------------------------ startup *)

\* What x11_sign_init may meet: every step that can fail is inside an assert.
InitOutcomes == {"ok", "XOpenDisplay", "XAllocNamedColor", "XLoadQueryFont"}

\* main at line 148, parse_args done: x11_sign_init has not run yet.
InitStart ==
    /\ arg_check_period = CHECK_PERIOD_DEFAULT
    /\ curstate = "CHST_INVALID"
    /\ prevstate = "CHST_INVALID"
    /\ warnnum = 0
    /\ shutdown_launched = FALSE
    /\ x11_sign_active = FALSE
    /\ cur_sign = 0
    /\ x11_pipe = <<>>
    /\ x11_dd = [mapped |-> FALSE, cur_msg |-> NoSign]
    /\ frame = [t \in Threads |-> IF t = MAIN THEN IdleFrame("init") ELSE IdleFrame("free")]
    /\ fields = [present |-> "-", state |-> "-"]
    /\ tasks = [k \in {"start", "cancel"} |-> 0]
    /\ sys_last = "none"
    /\ last_inv = "none"
    /\ owner = "none"
    /\ lowrun = 0
    /\ cyc = NoCycle

\* x11_sign_init, lines 505-601, and the rest of main's initializations: a
\* failed assert (lines 525, 532, 534, 539) aborts the process.
x11_sign_init ==
    /\ MainAt("init")
    /\ \E outcome \in InitOutcomes :
          frame' = [frame EXCEPT ![MAIN] =
                       IdleFrame(IF outcome = "ok" THEN "poll" ELSE "aborted")]
    /\ UNCHANGED <<arg_check_period, curstate, prevstate, warnnum, shutdown_launched,
                   x11_sign_active, cur_sign, x11_pipe, x11_dd, fields, tasks,
                   sys_last, last_inv, owner, lowrun, cyc>>

\* The program from line 148 on.
NextStart ==
    \/ x11_sign_init
    \/ Poll
    \/ Cycle
    \/ Sleep
    \/ \E t \in TempIds : TempShow(t)
    \/ \E t \in TempIds : TempClear(t)

SpecStart == InitStart /\ [][NextStart]_vars

\* The remaining capacities of a battery that never runs low.
RemCapsNotLow == {c \in RemCaps : DischargingChecks(1, c).branch # "low"}

InitRace == Init /\ arg_check_period = CHECK_PERIOD_DEFAULT

\* Every access to the shared flag, cur_sign and the pipe is a step of its own.
NextRace ==
    \/ Poll
    \/ MainStepR(LowLimits, RemCapsNotLow)
    \/ Sleep
    \/ \E t \in Threads : SignAccess(t)
    \/ \E t \in TempIds : TempWake(t)
    \/ x11_sign_control_routine

SpecRace == InitRace /\ [][NextRace]_vars

(* ------------------------------------------------------------------ claims *)

\* No thread is inside x11_sign_display or x11_sign_undisplay.
Quiescent == \A t \in Threads : frame[t].pc \notin SignPcs

\* The window once the control thread has read the pipe empty.
Settled == Drain(x11_dd, x11_pipe)

\* The alerts on the screen: the one window shows cur_msg while it is mapped.
Showing == IF x11_dd.mapped THEN {x11_dd.cur_msg} ELSE {}

\* C1: at most one alert is shown at any time, and whenever no thread is in the
\* middle of a sign call the flag x11_sign_active is true only if the last
\* command requested of the control thread shows an alert (no Clear came after).
C1_OneAlertVisibleFlag ==
    /\ Cardinality(Showing) <= 1
    /\ (Quiescent /\ x11_sign_active) => Settled.mapped

\* The loop body of the current cycle has run, and main has not yet saved
\* prevstate: cyc tells what the cycle did, prevstate is the cycle before.
AtEnd == MainAt("finish")

\* The states whose case resets the counter and calls stop_shutdown.
ResetStates == {"CHST_CHARGED", "CHST_CHARGING", "CHST_NO_BAT", "CHST_INVALID"}

\* C2: no duplicate shutdowns.  start_shutdown with the flag already true
\* creates no start thread and plays no sound, and the start and cancel
\* threads main creates alternate, beginning with a start: a start thread is
\* created only when the last one created was not a start, a cancel thread only
\* when the last one was a start.
C2_NoDuplicateShutdown ==
    /\ [](shutdown_launched =>
             start_shutdown(shutdown_launched)
                = [active |-> TRUE, spawn |-> FALSE, alerts |-> <<>>])
    /\ [][/\ cyc'.starts > cyc.starts =>
                /\ last_inv # "start"
                /\ last_inv' = "start"
                /\ cyc'.starts = cyc.starts + 1
          /\ cyc'.cancels > cyc.cancels =>
                /\ last_inv = "start"
                /\ last_inv' = "cancel"
                /\ cyc'.cancels = cyc.cancels + 1
          /\ last_inv' # last_inv =>
                cyc'.starts > cyc.starts \/ cyc'.cancels > cyc.cancels]_vars

\* A low-battery cycle that found the safety time over while the shutdown was
\* already running, and started nothing.
C2_Witness ==
    /\ AtEnd
    /\ cyc.branch = "low"
    /\ cyc.sd0
    /\ cyc.warn0 * arg_check_period >= SAFETY_TIME
    /\ cyc.starts = 0
    /\ ~("ALERT_STARTSHUTDOWN" \in {cyc.sounds[i] : i \in DOMAIN cyc.sounds})

\* C3: a cycle that calls stop_shutdown while no shutdown is running creates no
\* cancel thread, plays no sound, and leaves the flag false.
C3_StopWhenIdle ==
    (AtEnd /\ curstate \in ResetStates /\ ~cyc.sd0) =>
        /\ cyc.cancels = 0
        /\ cyc.sounds = <<>>
        /\ ~shutdown_launched

\* stop_shutdown was called with the flag false, after warnings had been given.
C3_Witness ==
    /\ AtEnd
    /\ curstate \in ResetStates
    /\ ~cyc.sd0
    /\ cyc.warn0 > 0
    /\ cyc.cancels = 0

\* C4 as stated: with a period of 10 s, in a run of consecutive low-battery
\* cycles that began with warnnum = 0 and no shutdown running, the shutdown is
\* started in the 6th cycle of the run and in no other.
C4_StartsOnSixth ==
    (arg_check_period = 10 /\ AtEnd /\ lowrun > 0) =>
        (cyc.starts = 1 <=> lowrun = 6)

\* C4 amended: the shutdown is started in the 7th cycle of the run and in no
\* other (six cycles raise warnnum to 6; the 7th finds 6 * 10 >= 60).
C4_StartsOnSeventh ==
    (arg_check_period = 10 /\ AtEnd /\ lowrun > 0) =>
        /\ cyc.starts = 1 <=> lowrun = 7
        /\ cyc.starts <= 1
        /\ lowrun <= 6 => (warnnum = lowrun /\ ~shutdown_launched)
        /\ lowrun >= 7 => shutdown_launched

C4_Witness ==
    /\ arg_check_period = 10
    /\ AtEnd
    /\ lowrun = 7
    /\ cyc.starts = 1
    /\ cyc.warn0 = 6
    /\ shutdown_launched

\* C5: when the dwell of a temporary-sign thread ends while the alert last
\* requested is one that main showed during the dwell, the thread's trailing
\* x11_sign_undisplay leaves that alert on the screen.
C5_TrailingClearKeepsShow ==
    [][\A t \in TempIds :
          (frame[t].pc = "sleep" /\ frame'[t].pc = "free" /\ owner = "main") =>
              (x11_dd'.mapped /\ x11_dd'.cur_msg = x11_dd.cur_msg /\ x11_sign_active')]_vars

\* C6: a cycle that resolves discharging calls x11_sign_undisplay for the
\* state change (the Clear request of line 167) exactly when the cycle before
\* did not resolve discharging.
C6_ClearOnEntryOnly ==
    (AtEnd /\ curstate = "CHST_DISCHARGING") =>
        cyc.clears = (IF prevstate = "CHST_DISCHARGING" THEN 0 ELSE 1)

\* A discharging cycle after a discharging cycle, with a sign up, and no Clear.
C6_Witness ==
    /\ AtEnd
    /\ curstate = "CHST_DISCHARGING"
    /\ prevstate = "CHST_DISCHARGING"
    /\ x11_sign_active
    /\ cyc.branch = "ok"
    /\ cyc.clears = 0

\* C7: the resolver returns NoBattery whenever the presence field is unreadable
\* or not "yes", whatever the state field; with the battery present, Invalid
\* for an unreadable state field, Charging, Charged, Discharging for exactly
\* those tokens, and Other for any other token.
C7_Resolver ==
    MainAt("switch") =>
        curstate =
            (CASE fields.present # "yes" -> "CHST_NO_BAT"
               [] fields.present = "yes" /\ fields.state = Unreadable -> "CHST_INVALID"
               [] fields.present = "yes" /\ fields.state = "charging" -> "CHST_CHARGING"
               [] fields.present = "yes" /\ fields.state = "charged" -> "CHST_CHARGED"
               [] fields.present = "yes" /\ fields.state = "discharging" -> "CHST_DISCHARGING"
               [] OTHER -> "CHST_OTHER")

\* No battery reported although the state field reads discharging.
C7_Witness ==
    /\ MainAt("switch")
    /\ fields.present = "no"
    /\ fields.state = "discharging"
    /\ curstate = "CHST_NO_BAT"

\* C8 as stated: after every cycle that resolves a state other than
\* discharging, warnnum is 0.
C8_ResetOnNonDischarging ==
    (AtEnd /\ curstate # "CHST_DISCHARGING") => warnnum = 0

\* C8 amended: after every cycle that resolves Charging, Charged, NoBattery or
\* Invalid warnnum is 0; a cycle that resolves Other leaves warnnum as it was.
C8_ResetOnResetStates ==
    /\ (AtEnd /\ curstate \in ResetStates) => warnnum = 0
    /\ (AtEnd /\ curstate = "CHST_OTHER") => warnnum = cyc.warn0

\* A counter that had counted warnings was reset.
C8_Witness ==
    /\ AtEnd
    /\ curstate \in ResetStates
    /\ cyc.warn0 > 0
    /\ warnnum = 0

\* C9 as stated: a low-battery cycle that begins with the shutdown running
\* resets warnnum to 0.
C9_ResetWhenShutdownActive ==
    (AtEnd /\ cyc.branch = "low" /\ cyc.sd0) => warnnum = 0

\* C9 amended: a low-battery cycle that begins with the shutdown running adds
\* one to warnnum, plays the low-battery sound and leaves the shutdown running.
C9_CountsWhenShutdownActive ==
    (AtEnd /\ cyc.branch = "low" /\ cyc.sd0) =>
        /\ warnnum = cyc.warn0 + 1
        /\ cyc.sounds = <<"ALERT_LOWBAT">>
        /\ shutdown_launched
        /\ cyc.starts = 0

C9_Witness ==
    /\ AtEnd
    /\ cyc.branch = "low"
    /\ cyc.sd0
    /\ warnnum = cyc.warn0 + 1
    /\ cyc.warn0 > 0

\* C10: after every cycle that resolves Charged, Charging, NoBattery or Invalid
\* the shutdown flag is false; the cycle created exactly one cancel thread if
\* the shutdown was running when it began, and none otherwise.
C10_StopOnResetStates ==
    (AtEnd /\ curstate \in ResetStates) =>
        /\ ~shutdown_launched
        /\ cyc.cancels = (IF cyc.sd0 THEN 1 ELSE 0)
        /\ cyc.starts = 0
        /\ cyc.sounds = (IF cyc.sd0 THEN <<"ALERT_STOPSHUTDOWN">> ELSE <<>>)

\* A running shutdown was cancelled.
C10_Witness ==
    /\ AtEnd
    /\ curstate \in ResetStates
    /\ cyc.sd0
    /\ ~shutdown_launched
    /\ cyc.cancels = 1
    /\ sys_last = "cancel"

\* C11: no stuck alerts.  Whenever no thread is inside a sign call and no
\* temporary-sign thread has its trailing x11_sign_undisplay still to come, the
\* window, once the control thread has read the pipe empty, is not left mapped
\* while x11_sign_active reads false.
C11_NoStuckAlert ==
    (/\ Quiescent
     /\ \A t \in TempIds : frame[t].pc = "free"
     /\ ~x11_sign_active) => ~Settled.mapped

\* C12: a discharging cycle that cannot read the design-low threshold, or reads
\* it and cannot read the remaining capacity, creates exactly the temporary
\* sign of that failure (without reading the remaining capacity in the first
\* case), leaves warnnum and the shutdown flag as they were, creates no
\* shutdown thread, plays no sound, writes no command of its own besides the
\* one of the Clear on entering the state, and reaches the end of the loop body.
C12_ReadFailure ==
    /\ (MainAt("finish") /\ curstate = "CHST_DISCHARGING"
          /\ (cyc.lowlimit = -1 \/ cyc.remcap = -1)) =>
          /\ cyc.temps = <<IF cyc.lowlimit = -1 THEN MSG_LOWCAP_WARNING
                           ELSE MSG_REMCAP_WARNING>>
          /\ cyc.lowlimit = -1 => cyc.remcap = NotRead
          /\ warnnum = cyc.warn0
          /\ shutdown_launched = cyc.sd0
          /\ cyc.starts = 0
          /\ cyc.cancels = 0
          /\ cyc.sounds = <<>>
          /\ cyc.cmds \in {<<>>, <<MSG_REMOVE_SIGN>>}
          /\ cyc.clears = 0 => cyc.cmds = <<>>
    /\ (curstate = "CHST_DISCHARGING" /\ (cyc.lowlimit = -1 \/ cyc.remcap = -1)) =>
          MainAt("finish")

\* The remaining capacity could not be read while warnings had been counted and
\* the shutdown was running.
C12_Witness ==
    /\ MainAt("finish")
    /\ curstate = "CHST_DISCHARGING"
    /\ cyc.lowlimit = 1
    /\ cyc.remcap = -1
    /\ cyc.sd0
    /\ cyc.warn0 > 0
    /\ cyc.temps = <<MSG_REMCAP_WARNING>>

\* C13: a display that cannot be opened, or resources that cannot be allocated,
\* at startup are never fatal: the process is not aborted, and main goes on to
\* its poll cycles.
C13_InitFailureNotFatal == ~MainAt("aborted")

\* Thread t has tested x11_sign_active and its store to the flag is still to
\* come (lines 660-662 and 610-614).
FlagWriter(t) == frame[t].pc \in {"u_send", "u_clr", "d_send", "d_set"}

\* C14: single-writer ownership of the notification state: no two threads are
\* at the same time between their read of the visible flag and their write to it.
C14_SingleWriter ==
    \A t, u \in Threads : (FlagWriter(t) /\ FlagWriter(u)) => t = u

\* The model has room for the threads the cycle about to run may create, and
\* for its count of warnings.
HasRoom ==
    /\ curstate \in {"CHST_OTHER", "CHST_INVALID", "CHST_DISCHARGING"} =>
          \E t \in TempIds : frame[t].pc = "free"
    /\ curstate = "CHST_DISCHARGING" =>
          (tasks["start"] < MaxTasks /\ warnnum < MaxWarn)
    /\ (curstate \in ResetStates /\ shutdown_launched) => tasks["cancel"] < MaxTasks

\* The loop body can run to its end on whatever the battery files hold: the
\* guard of CycleDetached, for every input.
BodyCanRun ==
    \A lowlimit \in LowLimits, remcap \in RemCaps :
        RunBody(MainState, get_integer_field(lowlimit), get_integer_field(remcap)).ok

C16_ShowIdempotent ==
    \A sign \in Signs :
        LET s == Shared
            r == x11_sign_display(s, sign, "main")
        IN  /\ r.active
            /\ r.cur = sign
            /\ r.sent = (IF s.active /\ s.cur = sign THEN <<>>
                         ELSE IF s.active THEN <<MSG_REMOVE_SIGN, sign>>
                         ELSE <<sign>>)
            /\ r.pipe = s.pipe \o r.sent
            /\ (s.active /\ s.cur = sign) => r = s
            /\ Drain(x11_dd, r.pipe) = [mapped |-> TRUE, cur_msg |-> sign]

\* main's Show of the low-battery sign replaced a temporary sign: remove, then
\* the sign; the flag is up with the new sign.
C16_Witness ==
    /\ MainAt("finish")
    /\ cyc.branch = "low"
    /\ cyc.clears = 0
    /\ cyc.cmds = <<MSG_REMOVE_SIGN, MSG_LOW_BATTERY>>
    /\ x11_sign_active
    /\ cur_sign = MSG_LOW_BATTERY
    /\ x11_dd = [mapped |-> TRUE, cur_msg |-> MSG_LOW_BATTERY]

\* C17: every discharging cycle that reads a remaining capacity below the
\* threshold calls x11_sign_display(MSG_LOW_BATTERY), and then does exactly one
\* of two things.  If warnnum * period >= SAFETY_TIME and no shutdown is
\* running, it calls start_shutdown (one start thread, the flag set) and leaves
\* warnnum alone, without the low-battery sound; otherwise it adds one to
\* warnnum and plays the low-battery sound once, and starts nothing.
C17_LowBatteryEitherOr ==
    (MainAt("finish") /\ cyc.branch = "low") =>
        /\ cyc.remcap < cyc.lowlimit
        /\ cyc.shows = <<MSG_LOW_BATTERY>>
        /\ cyc.temps = <<>>
        /\ cyc.cancels = 0
        /\ IF cyc.warn0 * arg_check_period >= SAFETY_TIME /\ ~cyc.sd0
           THEN /\ cyc.starts = 1
                /\ shutdown_launched
                /\ warnnum = cyc.warn0
                /\ cyc.sounds = <<"ALERT_STARTSHUTDOWN">>
           ELSE /\ cyc.starts = 0
                /\ shutdown_launched = cyc.sd0
                /\ warnnum = cyc.warn0 + 1
                /\ cyc.sounds = <<"ALERT_LOWBAT">>

\* The cycle that starts the shutdown at the default period: three warnings
\* counted, none added.
C17_Witness ==
    /\ MainAt("finish")
    /\ cyc.branch = "low"
    /\ arg_check_period = CHECK_PERIOD_DEFAULT
    /\ cyc.warn0 = 3
    /\ warnnum = 3
    /\ cyc.starts = 1
    /\ cyc.shows = <<MSG_LOW_BATTERY>>

\* C18: a cycle that resolves Other creates the temporary sign of the unknown
\* charging state and does nothing else: no x11_sign_undisplay and no
\* x11_sign_display by main, no command written by main, warnnum and the
\* shutdown flag as they were, no shutdown thread created, no sound.
C18_OtherOnlyWarns ==
    (MainAt("finish") /\ curstate = "CHST_OTHER") =>
        /\ cyc.temps = <<MSG_CHST_UNK_WARNING>>
        /\ cyc.clears = 0
        /\ cyc.shows = <<>>
        /\ cyc.cmds = <<>>
        /\ warnnum = cyc.warn0
        /\ shutdown_launched = cyc.sd0
        /\ cyc.starts = 0
        /\ cyc.cancels = 0
        /\ cyc.sounds = <<>>

\* Other resolved while warnings were counted and the shutdown was running.
C18_Witness ==
    /\ MainAt("finish")
    /\ curstate = "CHST_OTHER"
    /\ cyc.warn0 > 0
    /\ cyc.sd0
    /\ shutdown_launched
    /\ warnnum = cyc.warn0
    /\ cyc.temps = <<MSG_CHST_UNK_WARNING>>

\* The cycle read both fields and found the remaining capacity at or above the
\* threshold.
ReadableNotLow(c) ==
    /\ c.lowlimit \notin {-1, NotRead}
    /\ c.remcap \notin {-1, NotRead}
    /\ c.remcap >= c.lowlimit

\* C19: a discharging cycle that reads both fields and finds the remaining
\* capacity at or above the threshold takes no alert action: it calls
\* x11_sign_undisplay once if the cycle before was not discharging and not at
\* all otherwise, calls no x11_sign_display, creates no temporary sign and no
\* shutdown thread, plays no sound, writes no command but the one of that
\* Clear, and leaves warnnum and the shutdown flag as they were.  After a
\* discharging cycle it leaves the flag, cur_sign and the window untouched.
C19_NotLowNoAction ==
    /\ []((MainAt("finish") /\ curstate = "CHST_DISCHARGING" /\ ReadableNotLow(cyc)) =>
             /\ cyc.clears = (IF prevstate = "CHST_DISCHARGING" THEN 0 ELSE 1)
             /\ cyc.shows = <<>>
             /\ cyc.temps = <<>>
             /\ cyc.cmds \in {<<>>, <<MSG_REMOVE_SIGN>>}
             /\ cyc.clears = 0 => cyc.cmds = <<>>
             /\ cyc.sounds = <<>>
             /\ cyc.starts = 0
             /\ cyc.cancels = 0
             /\ warnnum = cyc.warn0
             /\ shutdown_launched = cyc.sd0)
    /\ [][(/\ MainAt("switch")
           /\ curstate = "CHST_DISCHARGING"
           /\ prevstate = "CHST_DISCHARGING"
           /\ frame'[MAIN].pc = "finish"
           /\ ReadableNotLow(cyc')) =>
              UNCHANGED <<x11_sign_active, cur_sign, x11_dd, x11_pipe, warnnum,
                          shutdown_launched, tasks, sys_last>>]_vars

\* The battery is no longer low: the low-battery sign stays up and the
\* shutdown stays scheduled.
C19_Witness ==
    /\ MainAt("finish")
    /\ curstate = "CHST_DISCHARGING"
    /\ prevstate = "CHST_DISCHARGING"
    /\ ReadableNotLow(cyc)
    /\ cyc.sd0
    /\ shutdown_launched
    /\ cyc.warn0 > 0
    /\ x11_sign_active
    /\ cur_sign = MSG_LOW_BATTERY
    /\ x11_dd = [mapped |-> TRUE, cur_msg |-> MSG_LOW_BATTERY]

\* The number of warnings after which warnnum * period >= SAFETY_TIME.
WarningsNeeded == (SAFETY_TIME + arg_check_period - 1) \div arg_check_period

\* C20: for every period parse_args accepts, a battery that stays low gets the
\* shutdown started, by elapsed time and once.  A start thread is created only
\* in a low-battery cycle that begins with warnnum * period >= SAFETY_TIME and
\* no shutdown running, and every such cycle creates exactly one; a low-battery
\* cycle that begins with the shutdown running creates none.  While no shutdown
\* runs warnnum never exceeds WarningsNeeded and every low-battery cycle short
\* of it adds one, so the start comes at the latest WarningsNeeded + 1
\* low-battery cycles after any point: in a run that begins with warnnum = 0,
\* exactly in cycle WarningsNeeded + 1, whatever the period.
C20_StartsByElapsedTime ==
    /\ arg_check_period \in CHECK_PERIOD_MIN..CHECK_PERIOD_MAX
    /\ ~shutdown_launched => warnnum <= WarningsNeeded
    /\ MainAt("finish") =>
          /\ cyc.starts \in {0, 1}
          /\ cyc.starts = 1 <=>
                (/\ cyc.branch = "low"
                 /\ cyc.warn0 * arg_check_period >= SAFETY_TIME
                 /\ ~cyc.sd0)
          /\ cyc.starts = 1 => shutdown_launched
          /\ (cyc.branch = "low" /\ cyc.sd0) => shutdown_launched
          /\ (cyc.branch = "low" /\ ~cyc.sd0 /\ cyc.warn0 < WarningsNeeded) =>
                (warnnum = cyc.warn0 + 1 /\ ~shutdown_launched)
          /\ lowrun > 0 =>
                /\ cyc.starts = 1 <=> lowrun = WarningsNeeded + 1
                /\ lowrun <= WarningsNeeded => (warnnum = lowrun /\ ~shutdown_launched)
                /\ lowrun > WarningsNeeded => shutdown_launched

\* With a period of 9 s the shutdown starts in the 8th low-battery cycle, after
\* 7 warnings (63 s), not after a fixed number of them.
C20_Witness ==
    /\ MainAt("finish")
    /\ arg_check_period = 9
    /\ lowrun = 8
    /\ cyc.warn0 = 7
    /\ cyc.starts = 1
    /\ shutdown_launched

\* Every shutdown thread main created has run its command.
TasksDone == \A k \in DOMAIN tasks : tasks[k] = 0

\* C21: the external commands take effect in the order main issued them:
\* whenever every shutdown thread has finished, the last command that system()
\* ran is the last one main asked for, so with the shutdown flag false it is
\* the cancel command, or none was run.
C21_CommandsInOrder ==
    TasksDone =>
        /\ sys_last = last_inv
        /\ ~shutdown_launched => sys_last \in {"cancel", "none"}

\* C22: between poll cycles the shutdown flag is true only if
\* warnnum * period >= SAFETY_TIME.  A cycle sets the flag only when that holds
\* at its beginning, and leaves warnnum alone; a cycle that begins and ends with
\* the flag true does not lower warnnum; and warnnum goes down only by the
\* reset to 0 of a cycle that calls stop_shutdown in one of the four reset
\* states, after which the flag is false (one cancel thread if it was true).
C22_FlagImpliesSafetyTime ==
    /\ shutdown_launched => warnnum * arg_check_period >= SAFETY_TIME
    /\ MainAt("finish") =>
          /\ (~cyc.sd0 /\ shutdown_launched) =>
                /\ cyc.warn0 * arg_check_period >= SAFETY_TIME
                /\ warnnum = cyc.warn0
                /\ cyc.starts = 1
          /\ (cyc.sd0 /\ shutdown_launched) => warnnum >= cyc.warn0
          /\ warnnum < cyc.warn0 =>
                /\ warnnum = 0
                /\ curstate \in ResetStates
                /\ ~shutdown_launched
                /\ cyc.cancels = (IF cyc.sd0 THEN 1 ELSE 0)
          /\ (cyc.sd0 /\ ~shutdown_launched) => warnnum = 0

\* With the shutdown running, a further low-battery cycle raised warnnum past
\* the safety time.
C22_Witness ==
    /\ MainAt("finish")
    /\ arg_check_period = 10
    /\ cyc.sd0
    /\ shutdown_launched
    /\ cyc.warn0 = 6
    /\ warnnum = 7

====
